---- MODULE Spec2Model ----
(***************************************************************************)
(* State-machine model of the NFT marketplace pallet                       *)
(* (pallets/template/src/lib.rs): the seven storage items, the balance     *)
(* ledger the pallet drives through the Currency trait, and the four       *)
(* dispatchables mint, sell, cancel_order and buy.                         *)
(*                                                                         *)
(* Storage maps with OptionQuery are partial functions (a key is present   *)
(* iff it is in the DOMAIN); an optional StorageValue is <<>> (None) or    *)
(* <<v>> (Some(v)).                                                        *)
(***************************************************************************)
EXTENDS Integers, FiniteSets, Sequences, TLC

\* ------------------------------------------------------------------ bounds
\* NumAccounts accounts sign calls; the u64 counters are scaled down to the
\* range 0..MaxTokens (so at most MaxTokens tokens are minted) and the u128
\* counter to the square of that range; prices are 1..MaxPrice; every account
\* starts with InitialBalance, below the highest price; a behaviour dispatches
\* at most MaxCalls calls.
NumAccounts == 2
MaxTokens == 3
MaxPrice == 2
InitialBalance == 1
MaxCalls == 7

\* u64::MAX and u128::MAX, scaled: 2^128 = (2^64)^2
U64_MAX == MaxTokens
U128_MAX == (MaxTokens + 1) * (MaxTokens + 1) - 1

Accounts == 1..NumAccounts
TokenArgs == 0..MaxTokens
Prices == 1..MaxPrice

\* ----------------------------------------------------------------- storage
VARIABLES
    next_token_id,   \* NextTokenId: Option<u64>
    token_owner,     \* TokenIdToOwner: token -> <<owner, position>>
    order_count,     \* NumberOfSellOrders: Option<u128>
    orders,          \* SellOrders: order id -> [token_id, sell_price]
    sale_index,      \* IsTokenOnSale: token -> order id
    owner_count,     \* OwnerToNumberOfNFTs: account -> u64
    owner_tokens,    \* OwnerToTokenIds: <<account, position>> -> token
    balances,        \* free balance of every account (Currency)
    last,            \* the call just dispatched and its outcome
    calls,           \* number of calls dispatched so far
    overflow_checks  \* the build: unchecked + and - trap (TRUE) or wrap (FALSE)

store == <<next_token_id, token_owner, order_count, orders, sale_index,
           owner_count, owner_tokens, balances>>
vars == <<next_token_id, token_owner, order_count, orders, sale_index,
          owner_count, owner_tokens, balances, last, calls, overflow_checks>>

\* ----------------------------------------------------- storage primitives
None == <<>>
Some(v) == <<v>>
UnwrapOr(o, d) == IF o = <<>> THEN d ELSE o[1]

EmptyMap == [k \in {} |-> 0]
Contains(m, k) == k \in DOMAIN m
Insert(m, k, v) == [x \in (DOMAIN m) \cup {k} |-> IF x = k THEN v ELSE m[x]]
Remove(m, k) == [x \in (DOMAIN m) \ {k} |-> m[x]]
GetOr(m, k, d) == IF k \in DOMAIN m THEN m[k] ELSE d

\* integer arithmetic of width max + 1: checked_add, and the unchecked + 1 and
\* - 1, which trap when the build checks overflow and wrap when it does not
CheckedAdd(x, y, max) == IF x + y > max THEN None ELSE Some(x + y)
WrappingAdd1(x, max) == IF x = max THEN 0 ELSE x + 1
WrappingSub1(x, max) == IF x = 0 THEN max ELSE x - 1
Traps(overflows) == overflows /\ overflow_checks

Order(t, p) == [token_id |-> t, sell_price |-> p]

\* outcome of a dispatched call
Call(op, who, token, price, res, seller, oid) ==
    [op |-> op, who |-> who, token |-> token, price |-> price,
     result |-> res, seller |-> seller, order_id |-> oid]

Init ==
    /\ next_token_id = None
    /\ token_owner = EmptyMap
    /\ order_count = None
    /\ orders = EmptyMap
    /\ sale_index = EmptyMap
    /\ owner_count = EmptyMap
    /\ owner_tokens = EmptyMap
    /\ balances = [a \in Accounts |-> InitialBalance]
    /\ last = Call("genesis", 0, 0, 0, "Ok", 0, -1)
    /\ calls = 0
    /\ overflow_checks \in BOOLEAN

\* -------------------------------------------------------------------- mint
\* a plausible slip: the ownership record takes the incremented counter
Mint_PositionAfterIncrement(owner) ==
    LET token_id == UnwrapOr(next_token_id, 0)
        next == CheckedAdd(token_id, 1, U64_MAX)
        number_of_nfts == GetOr(owner_count, owner, 0)
        res == IF next = None THEN "StorageOverflow"
               ELSE IF Traps(number_of_nfts = U64_MAX) THEN "Panic"
               ELSE "Ok"
    IN  /\ last' = Call("mint", owner, token_id, 0, res, 0, -1)
        /\ IF res = "Ok"
           THEN /\ next_token_id' = next
                /\ owner_count' = Insert(owner_count, owner,
                                         WrappingAdd1(number_of_nfts, U64_MAX))
                /\ token_owner' = Insert(token_owner, token_id,
                                         <<owner, number_of_nfts + 1>>)
                /\ owner_tokens' = Insert(owner_tokens, <<owner, number_of_nfts>>,
                                          token_id)
                /\ UNCHANGED <<order_count, orders, sale_index, balances>>
           ELSE UNCHANGED store

\* a plausible slip: NextTokenId is written back without the increment
Mint_NoIncrement(owner) ==
    LET token_id == UnwrapOr(next_token_id, 0)
        next == CheckedAdd(token_id, 1, U64_MAX)
        number_of_nfts == GetOr(owner_count, owner, 0)
        res == IF next = None THEN "StorageOverflow"
               ELSE IF Traps(number_of_nfts = U64_MAX) THEN "Panic"
               ELSE "Ok"
    IN  /\ last' = Call("mint", owner, token_id, 0, res, 0, -1)
        /\ IF res = "Ok"
           THEN /\ next_token_id' = Some(token_id)
                /\ owner_count' = Insert(owner_count, owner,
                                         WrappingAdd1(number_of_nfts, U64_MAX))
                /\ token_owner' = Insert(token_owner, token_id,
                                         <<owner, number_of_nfts>>)
                /\ owner_tokens' = Insert(owner_tokens, <<owner, number_of_nfts>>,
                                          token_id)
                /\ UNCHANGED <<order_count, orders, sale_index, balances>>
           ELSE UNCHANGED store

\* a plausible slip: NextTokenId is incremented with a wrapping add
Mint_WrappingTokenId(owner) ==
    LET token_id == UnwrapOr(next_token_id, 0)
        next == Some(WrappingAdd1(token_id, U64_MAX))
        number_of_nfts == GetOr(owner_count, owner, 0)
        res == IF next = None THEN "StorageOverflow"
               ELSE IF Traps(number_of_nfts = U64_MAX) THEN "Panic"
               ELSE "Ok"
    IN  /\ last' = Call("mint", owner, token_id, 0, res, 0, -1)
        /\ IF res = "Ok"
           THEN /\ next_token_id' = next
                /\ owner_count' = Insert(owner_count, owner,
                                         WrappingAdd1(number_of_nfts, U64_MAX))
                /\ token_owner' = Insert(token_owner, token_id,
                                         <<owner, number_of_nfts>>)
                /\ owner_tokens' = Insert(owner_tokens, <<owner, number_of_nfts>>,
                                          token_id)
                /\ UNCHANGED <<order_count, orders, sale_index, balances>>
           ELSE UNCHANGED store

\* a plausible slip: the ownership record is keyed by the counter, not the id
Mint_RecordKeyedByCount(owner) ==
    LET token_id == UnwrapOr(next_token_id, 0)
        next == CheckedAdd(token_id, 1, U64_MAX)
        number_of_nfts == GetOr(owner_count, owner, 0)
        res == IF next = None THEN "StorageOverflow"
               ELSE IF Traps(number_of_nfts = U64_MAX) THEN "Panic"
               ELSE "Ok"
    IN  /\ last' = Call("mint", owner, token_id, 0, res, 0, -1)
        /\ IF res = "Ok"
           THEN /\ next_token_id' = next
                /\ owner_count' = Insert(owner_count, owner,
                                         WrappingAdd1(number_of_nfts, U64_MAX))
                /\ token_owner' = Insert(token_owner, number_of_nfts,
                                         <<owner, number_of_nfts>>)
                /\ owner_tokens' = Insert(owner_tokens, <<owner, number_of_nfts>>,
                                          token_id)
                /\ UNCHANGED <<order_count, orders, sale_index, balances>>
           ELSE UNCHANGED store

\* mint issues NextTokenId (StorageOverflow when the counter is at its
\* maximum, before any write) and appends the token to the caller's array;
\* the caller's counter is incremented with an unchecked + 1.
Mint(owner) ==
    LET token_id == UnwrapOr(next_token_id, 0)
        next == CheckedAdd(token_id, 1, U64_MAX)
        number_of_nfts == GetOr(owner_count, owner, 0)
        res == IF next = None THEN "StorageOverflow"
               ELSE IF Traps(number_of_nfts = U64_MAX) THEN "Panic"
               ELSE "Ok"
    IN  /\ last' = Call("mint", owner, token_id, 0, res, 0, -1)
        /\ IF res = "Ok"
           THEN /\ next_token_id' = next
                /\ owner_count' = Insert(owner_count, owner,
                                         WrappingAdd1(number_of_nfts, U64_MAX))
                /\ token_owner' = Insert(token_owner, token_id,
                                         <<owner, number_of_nfts>>)
                /\ owner_tokens' = Insert(owner_tokens, <<owner, number_of_nfts>>,
                                          token_id)
                /\ UNCHANGED <<order_count, orders, sale_index, balances>>
           ELSE UNCHANGED store

\* -------------------------------------------------------------------- sell
\* a plausible slip: the caller is never compared with the owner
SellCheck_NoOwnerCheck(who, token) ==
    IF ~Contains(token_owner, token) THEN "InvalidTokenID"
    ELSE IF Contains(sale_index, token) THEN "TokenAlreadyOnSale"
    ELSE "Ok"

\* the three rejections of sell, in the order the code tests them
SellCheck(who, token) ==
    IF ~Contains(token_owner, token) THEN "InvalidTokenID"
    ELSE IF who # token_owner[token][1] THEN "NotTokenOwner"
    ELSE IF Contains(sale_index, token) THEN "TokenAlreadyOnSale"
    ELSE "Ok"

\* a plausible slip: the order is stored under the incremented counter
ListOrder_AfterIncrement(token, price) ==
    LET number_of_sell_orders == UnwrapOr(order_count, 0)
    IN  [result |-> IF CheckedAdd(number_of_sell_orders, 1, U128_MAX) = None
                        THEN "StorageOverflow" ELSE "Ok",
         order_id |-> number_of_sell_orders + 1,
         order_count |-> CheckedAdd(number_of_sell_orders, 1, U128_MAX),
         orders |-> Insert(orders, number_of_sell_orders + 1, Order(token, price)),
         sale_index |-> Insert(sale_index, token, number_of_sell_orders + 1)]

\* the order book after appending the new order (lines 149-162), or
\* StorageOverflow, raised before the first write
ListOrder(token, price) ==
    LET number_of_sell_orders == UnwrapOr(order_count, 0)
    IN  [result |-> IF CheckedAdd(number_of_sell_orders, 1, U128_MAX) = None
                        THEN "StorageOverflow" ELSE "Ok",
         order_id |-> number_of_sell_orders,
         order_count |-> CheckedAdd(number_of_sell_orders, 1, U128_MAX),
         orders |-> Insert(orders, number_of_sell_orders, Order(token, price)),
         sale_index |-> Insert(sale_index, token, number_of_sell_orders)]

Sell(who, token, price) ==
    LET l == ListOrder(token, price)
        res == IF SellCheck(who, token) # "Ok" THEN SellCheck(who, token)
               ELSE l.result
    IN  IF res = "Ok"
        THEN /\ order_count' = l.order_count
             /\ orders' = l.orders
             /\ sale_index' = l.sale_index
             /\ last' = Call("sell", who, token, price, "Ok", 0, l.order_id)
             /\ UNCHANGED <<next_token_id, token_owner, owner_count,
                            owner_tokens, balances>>
        ELSE /\ last' = Call("sell", who, token, price, res, 0, -1)
             /\ UNCHANGED store

\* ------------------------------------------------------ destroy_sell_order
\* a plausible slip: the relocated order's sale index is not updated
DestroySellOrder_NoReindex(index_in_sell_orders) ==
    LET unchanged(res) == [result |-> res, order_count |-> order_count,
                           orders |-> orders, sale_index |-> sale_index]
    IN  IF ~Contains(orders, index_in_sell_orders) THEN unchanged("Panic")
        ELSE IF order_count = None THEN unchanged("Panic")
        ELSE IF Traps(order_count[1] = 0) THEN unchanged("Panic")
        ELSE
          LET token_id == orders[index_in_sell_orders].token_id
              last_index_in_sell_orders == WrappingSub1(order_count[1], U128_MAX)
          IN  IF /\ index_in_sell_orders # last_index_in_sell_orders
                 /\ ~Contains(orders, last_index_in_sell_orders)
              THEN unchanged("SellOrderNotFound")
              ELSE
                LET moved == index_in_sell_orders # last_index_in_sell_orders
                    order_at_last_index == orders[last_index_in_sell_orders]
                    orders1 == IF moved
                               THEN Insert(orders, index_in_sell_orders,
                                           order_at_last_index)
                               ELSE orders
                    sale1 == sale_index
                IN  [result |-> "Ok",
                     order_count |-> Some(last_index_in_sell_orders),
                     orders |-> Remove(orders1, last_index_in_sell_orders),
                     sale_index |-> Remove(sale1, token_id)]

\* a plausible slip: the last order is not written into the freed slot
DestroySellOrder_NoMove(index_in_sell_orders) ==
    LET unchanged(res) == [result |-> res, order_count |-> order_count,
                           orders |-> orders, sale_index |-> sale_index]
    IN  IF ~Contains(orders, index_in_sell_orders) THEN unchanged("Panic")
        ELSE IF order_count = None THEN unchanged("Panic")
        ELSE IF Traps(order_count[1] = 0) THEN unchanged("Panic")
        ELSE
          LET token_id == orders[index_in_sell_orders].token_id
              last_index_in_sell_orders == WrappingSub1(order_count[1], U128_MAX)
          IN  IF /\ index_in_sell_orders # last_index_in_sell_orders
                 /\ ~Contains(orders, last_index_in_sell_orders)
              THEN unchanged("SellOrderNotFound")
              ELSE
                LET moved == index_in_sell_orders # last_index_in_sell_orders
                    order_at_last_index == orders[last_index_in_sell_orders]
                    orders1 == orders
                    sale1 == IF moved
                             THEN Insert(sale_index, order_at_last_index.token_id,
                                         index_in_sell_orders)
                             ELSE sale_index
                IN  [result |-> "Ok",
                     order_count |-> Some(last_index_in_sell_orders),
                     orders |-> Remove(orders1, last_index_in_sell_orders),
                     sale_index |-> Remove(sale1, token_id)]

\* a plausible slip: the removed token's sale index entry is left behind
DestroySellOrder_KeepSaleIndex(index_in_sell_orders) ==
    LET unchanged(res) == [result |-> res, order_count |-> order_count,
                           orders |-> orders, sale_index |-> sale_index]
    IN  IF ~Contains(orders, index_in_sell_orders) THEN unchanged("Panic")
        ELSE IF order_count = None THEN unchanged("Panic")
        ELSE IF Traps(order_count[1] = 0) THEN unchanged("Panic")
        ELSE
          LET token_id == orders[index_in_sell_orders].token_id
              last_index_in_sell_orders == WrappingSub1(order_count[1], U128_MAX)
          IN  IF /\ index_in_sell_orders # last_index_in_sell_orders
                 /\ ~Contains(orders, last_index_in_sell_orders)
              THEN unchanged("SellOrderNotFound")
              ELSE
                LET moved == index_in_sell_orders # last_index_in_sell_orders
                    order_at_last_index == orders[last_index_in_sell_orders]
                    orders1 == IF moved
                               THEN Insert(orders, index_in_sell_orders,
                                           order_at_last_index)
                               ELSE orders
                    sale1 == IF moved
                             THEN Insert(sale_index, order_at_last_index.token_id,
                                         index_in_sell_orders)
                             ELSE sale_index
                IN  [result |-> "Ok",
                     order_count |-> Some(last_index_in_sell_orders),
                     orders |-> Remove(orders1, last_index_in_sell_orders),
                     sale_index |-> sale1]

\* a plausible slip: the slot of the removed order is cleared, not the last one
DestroySellOrder_ClearIndex(index_in_sell_orders) ==
    LET unchanged(res) == [result |-> res, order_count |-> order_count,
                           orders |-> orders, sale_index |-> sale_index]
    IN  IF ~Contains(orders, index_in_sell_orders) THEN unchanged("Panic")
        ELSE IF order_count = None THEN unchanged("Panic")
        ELSE IF Traps(order_count[1] = 0) THEN unchanged("Panic")
        ELSE
          LET token_id == orders[index_in_sell_orders].token_id
              last_index_in_sell_orders == WrappingSub1(order_count[1], U128_MAX)
          IN  IF /\ index_in_sell_orders # last_index_in_sell_orders
                 /\ ~Contains(orders, last_index_in_sell_orders)
              THEN unchanged("SellOrderNotFound")
              ELSE
                LET moved == index_in_sell_orders # last_index_in_sell_orders
                    order_at_last_index == orders[last_index_in_sell_orders]
                    orders1 == IF moved
                               THEN Insert(orders, index_in_sell_orders,
                                           order_at_last_index)
                               ELSE orders
                    sale1 == IF moved
                             THEN Insert(sale_index, order_at_last_index.token_id,
                                         index_in_sell_orders)
                             ELSE sale_index
                IN  [result |-> "Ok",
                     order_count |-> Some(last_index_in_sell_orders),
                     orders |-> Remove(orders1, index_in_sell_orders),
                     sale_index |-> Remove(sale1, token_id)]

\* a plausible slip: NumberOfSellOrders is not written back
DestroySellOrder_NoCountUpdate(index_in_sell_orders) ==
    LET unchanged(res) == [result |-> res, order_count |-> order_count,
                           orders |-> orders, sale_index |-> sale_index]
    IN  IF ~Contains(orders, index_in_sell_orders) THEN unchanged("Panic")
        ELSE IF order_count = None THEN unchanged("Panic")
        ELSE IF Traps(order_count[1] = 0) THEN unchanged("Panic")
        ELSE
          LET token_id == orders[index_in_sell_orders].token_id
              last_index_in_sell_orders == WrappingSub1(order_count[1], U128_MAX)
          IN  IF /\ index_in_sell_orders # last_index_in_sell_orders
                 /\ ~Contains(orders, last_index_in_sell_orders)
              THEN unchanged("SellOrderNotFound")
              ELSE
                LET moved == index_in_sell_orders # last_index_in_sell_orders
                    order_at_last_index == orders[last_index_in_sell_orders]
                    orders1 == IF moved
                               THEN Insert(orders, index_in_sell_orders,
                                           order_at_last_index)
                               ELSE orders
                    sale1 == IF moved
                             THEN Insert(sale_index, order_at_last_index.token_id,
                                         index_in_sell_orders)
                             ELSE sale_index
                IN  [result |-> "Ok",
                     order_count |-> order_count,
                     orders |-> Remove(orders1, last_index_in_sell_orders),
                     sale_index |-> Remove(sale1, token_id)]

\* The order book after removing the order at index_in_sell_orders, or the
\* failure.  A failed unwrap aborts the call ("Panic"), and so does the
\* subtraction 0 - 1 in a build that checks overflow; every failure happens
\* before the first write.
DestroySellOrder(index_in_sell_orders) ==
    LET unchanged(res) == [result |-> res, order_count |-> order_count,
                           orders |-> orders, sale_index |-> sale_index]
    IN  IF ~Contains(orders, index_in_sell_orders) THEN unchanged("Panic")
        ELSE IF order_count = None THEN unchanged("Panic")
        ELSE IF Traps(order_count[1] = 0) THEN unchanged("Panic")
        ELSE
          LET token_id == orders[index_in_sell_orders].token_id
              last_index_in_sell_orders == WrappingSub1(order_count[1], U128_MAX)
          IN  IF /\ index_in_sell_orders # last_index_in_sell_orders
                 /\ ~Contains(orders, last_index_in_sell_orders)
              THEN unchanged("SellOrderNotFound")
              ELSE
                LET moved == index_in_sell_orders # last_index_in_sell_orders
                    order_at_last_index == orders[last_index_in_sell_orders]
                    orders1 == IF moved
                               THEN Insert(orders, index_in_sell_orders,
                                           order_at_last_index)
                               ELSE orders
                    sale1 == IF moved
                             THEN Insert(sale_index, order_at_last_index.token_id,
                                         index_in_sell_orders)
                             ELSE sale_index
                IN  [result |-> "Ok",
                     order_count |-> Some(last_index_in_sell_orders),
                     orders |-> Remove(orders1, last_index_in_sell_orders),
                     sale_index |-> Remove(sale1, token_id)]

\* ------------------------------------------------------------ cancel_order
CancelCheck(who, token) ==
    IF ~Contains(token_owner, token) THEN "InvalidTokenID"
    ELSE IF who # token_owner[token][1] THEN "NotTokenOwner"
    ELSE IF ~Contains(sale_index, token) THEN "TokenNotOnSale"
    ELSE "Ok"

CancelOrder(who, token) ==
    LET res == CancelCheck(who, token)
    IN  IF res = "Ok"
        THEN LET d == DestroySellOrder(sale_index[token])
             IN  /\ order_count' = d.order_count
                 /\ orders' = d.orders
                 /\ sale_index' = d.sale_index
                 /\ last' = Call("cancel_order", who, token, 0, d.result, 0,
                                 sale_index[token])
                 /\ UNCHANGED <<next_token_id, token_owner, owner_count,
                                owner_tokens, balances>>
        ELSE /\ last' = Call("cancel_order", who, token, 0, res, 0, -1)
             /\ UNCHANGED store

\* --------------------------------------------------------------------- buy
\* a plausible slip: the balance test is missing
EnoughBalance_Always(buyer, sell_price) == TRUE

\* Currency::free_balance(buyer) >= sell_price
EnoughBalance(buyer, sell_price) == balances[buyer] >= sell_price

\* a plausible slip: the payee is never credited
Transfer_NoCredit(bal, from, to, value) == [bal EXCEPT ![from] = @ - value]

\* a plausible slip: debit and credit both computed from the old balances
Transfer_Simultaneous(bal, from, to, value) ==
    [a \in DOMAIN bal |->
        IF a = from THEN bal[a] - value
        ELSE IF a = to THEN bal[a] + value
        ELSE bal[a]]

\* Currency::transfer on success: debit the payer, then credit the payee
Transfer(bal, from, to, value) ==
    LET debited == [bal EXCEPT ![from] = @ - value]
    IN  [debited EXCEPT ![to] = @ + value]

\* a plausible slip: the seller's counter is not decremented
ChangeOwner_NoDecrement(seller, idx, buyer, token) ==
    LET unchanged(res) == [result |-> res, token_owner |-> token_owner,
                           owner_count |-> owner_count,
                           owner_tokens |-> owner_tokens]
    IN  IF ~Contains(owner_count, seller) THEN unchanged("Panic")
        ELSE IF Traps(owner_count[seller] = 0) THEN unchanged("Panic")
        ELSE
          LET seller_nft_count == owner_count[seller]
              last_pos == WrappingSub1(seller_nft_count, U64_MAX)
              count1 == owner_count
          IN  IF /\ idx # last_pos
                 /\ ~Contains(owner_tokens, <<seller, last_pos>>)
              THEN unchanged("Panic")
              ELSE IF CheckedAdd(GetOr(count1, buyer, 0), 1, U64_MAX) = None
              THEN unchanged("StorageOverflow")
              ELSE
                LET tokens1 == IF idx # last_pos
                               THEN Insert(owner_tokens, <<seller, idx>>,
                                           owner_tokens[<<seller, last_pos>>])
                               ELSE owner_tokens
                    tokens2 == Remove(tokens1, <<seller, last_pos>>)
                    buyer_nft_count == GetOr(count1, buyer, 0)
                IN  [result |-> "Ok",
                     token_owner |-> Insert(token_owner, token,
                                            <<buyer, buyer_nft_count>>),
                     owner_count |-> Insert(count1, buyer, buyer_nft_count + 1),
                     owner_tokens |-> Insert(tokens2, <<buyer, buyer_nft_count>>,
                                             token)]

\* The ownership part of buy (after the order was destroyed): take the token
\* out of the seller's array, then append it to the buyer's (StorageOverflow
\* when the buyer's counter is at its maximum).
ChangeOwner(seller, idx, buyer, token) ==
    LET unchanged(res) == [result |-> res, token_owner |-> token_owner,
                           owner_count |-> owner_count,
                           owner_tokens |-> owner_tokens]
    IN  IF ~Contains(owner_count, seller) THEN unchanged("Panic")
        ELSE IF Traps(owner_count[seller] = 0) THEN unchanged("Panic")
        ELSE
          LET seller_nft_count == owner_count[seller]
              last_pos == WrappingSub1(seller_nft_count, U64_MAX)
              count1 == Insert(owner_count, seller, last_pos)
          IN  IF /\ idx # last_pos
                 /\ ~Contains(owner_tokens, <<seller, last_pos>>)
              THEN unchanged("Panic")
              ELSE IF CheckedAdd(GetOr(count1, buyer, 0), 1, U64_MAX) = None
              THEN unchanged("StorageOverflow")
              ELSE
                LET tokens1 == IF idx # last_pos
                               THEN Insert(owner_tokens, <<seller, idx>>,
                                           owner_tokens[<<seller, last_pos>>])
                               ELSE owner_tokens
                    tokens2 == Remove(tokens1, <<seller, last_pos>>)
                    buyer_nft_count == GetOr(count1, buyer, 0)
                IN  [result |-> "Ok",
                     token_owner |-> Insert(token_owner, token,
                                            <<buyer, buyer_nft_count>>),
                     owner_count |-> Insert(count1, buyer, buyer_nft_count + 1),
                     owner_tokens |-> Insert(tokens2, <<buyer, buyer_nft_count>>,
                                             token)]

\* a plausible slip: the bought token stays marked as on sale
Buy_KeepOrder(buyer, token, transfer_ok) ==
    IF ~Contains(sale_index, token)
    THEN /\ last' = Call("buy", buyer, token, 0, "TokenNotOnSale", 0, -1)
         /\ UNCHANGED store
    ELSE
      LET sell_id == sale_index[token] IN
      IF ~Contains(token_owner, token) \/ ~Contains(orders, sell_id)
      THEN /\ last' = Call("buy", buyer, token, 0, "Panic", 0, sell_id)
           /\ UNCHANGED store
      ELSE
        LET seller == token_owner[token][1]
            idx == token_owner[token][2]
            sell_price == orders[sell_id].sell_price
            d == DestroySellOrder(sell_id)
            o == ChangeOwner(seller, idx, buyer, token)
            res == IF ~EnoughBalance(buyer, sell_price) THEN "NotEnoughBalance"
                   ELSE IF ~transfer_ok THEN "TransferFailed"
                   ELSE IF d.result # "Ok" THEN d.result
                   ELSE o.result
        IN  /\ last' = Call("buy", buyer, token, sell_price, res, seller, sell_id)
            /\ IF res = "Ok"
               THEN /\ balances' = Transfer(balances, buyer, seller, sell_price)
                    /\ order_count' = d.order_count
                    /\ orders' = d.orders
                    /\ sale_index' = sale_index
                    /\ token_owner' = o.token_owner
                    /\ owner_count' = o.owner_count
                    /\ owner_tokens' = o.owner_tokens
                    /\ UNCHANGED next_token_id
               ELSE UNCHANGED store

\* buy is #[transactional]: any failure discards every write of the call.
\* transfer_ok is the outcome of the external Currency::transfer.
Buy(buyer, token, transfer_ok) ==
    IF ~Contains(sale_index, token)
    THEN /\ last' = Call("buy", buyer, token, 0, "TokenNotOnSale", 0, -1)
         /\ UNCHANGED store
    ELSE
      LET sell_id == sale_index[token] IN
      IF ~Contains(token_owner, token) \/ ~Contains(orders, sell_id)
      THEN /\ last' = Call("buy", buyer, token, 0, "Panic", 0, sell_id)
           /\ UNCHANGED store
      ELSE
        LET seller == token_owner[token][1]
            idx == token_owner[token][2]
            sell_price == orders[sell_id].sell_price
            d == DestroySellOrder(sell_id)
            o == ChangeOwner(seller, idx, buyer, token)
            res == IF ~EnoughBalance(buyer, sell_price) THEN "NotEnoughBalance"
                   ELSE IF ~transfer_ok THEN "TransferFailed"
                   ELSE IF d.result # "Ok" THEN d.result
                   ELSE o.result
        IN  /\ last' = Call("buy", buyer, token, sell_price, res, seller, sell_id)
            /\ IF res = "Ok"
               THEN /\ balances' = Transfer(balances, buyer, seller, sell_price)
                    /\ order_count' = d.order_count
                    /\ orders' = d.orders
                    /\ sale_index' = d.sale_index
                    /\ token_owner' = o.token_owner
                    /\ owner_count' = o.owner_count
                    /\ owner_tokens' = o.owner_tokens
                    /\ UNCHANGED next_token_id
               ELSE UNCHANGED store

\* the host dispatches one call at a time
Dispatched ==
    calls < MaxCalls /\ calls' = calls + 1 /\ UNCHANGED overflow_checks

MintCall == \E c \in Accounts : Mint(c) /\ Dispatched
SellCall == \E c \in Accounts, t \in TokenArgs, p \in Prices :
                Sell(c, t, p) /\ Dispatched
CancelOrderCall == \E c \in Accounts, t \in TokenArgs :
                       CancelOrder(c, t) /\ Dispatched
BuyCall == \E c \in Accounts, t \in TokenArgs, ok \in BOOLEAN :
               Buy(c, t, ok) /\ Dispatched

Next == MintCall \/ SellCall \/ CancelOrderCall \/ BuyCall

Spec == Init /\ [][Next]_vars

\* ================================================================== claims
Count(a) == GetOr(owner_count, a, 0)
OrderCount == UnwrapOr(order_count, 0)
OwnedBy(a) == {t \in DOMAIN token_owner : token_owner[t][1] = a}
Positions(a) == {k[2] : k \in {x \in DOMAIN owner_tokens : x[1] = a}}
BoughtByOther == last.op = "buy" /\ last.result = "Ok" /\ last.who # last.seller

RECURSIVE SumCounts(_)
SumCounts(n) == IF n = 0 THEN 0 ELSE Count(n) + SumCounts(n - 1)

\* C1: every minted token t with token_owner[t] = (o, p) is held by the
\* owner's array at that position: owner_tokens[(o, p)] = t.
C1_OwnerArrayHoldsToken ==
    \A t \in DOMAIN token_owner :
        /\ Contains(owner_tokens, token_owner[t])
        /\ owner_tokens[token_owner[t]] = t

\* C2: for every account a the occupied positions of owner_tokens[a] are
\* exactly 0 .. owner_count[a]-1 (owner_count read as 0 when absent).
C2_OwnerArrayCompact ==
    \A a \in Accounts : Positions(a) = 0..(Count(a) - 1)

\* C3: the order book is compact and in lock-step with the sale index:
\* orders[i] is present exactly for i in 0..order_count-1, order_count is the
\* number of tokens with a sale_index entry, and sale_index[t] = i iff
\* orders[i] is present with orders[i].token_id = t.
C3_OrderBookCompact ==
    /\ DOMAIN orders = 0..(OrderCount - 1)
    /\ OrderCount = Cardinality(DOMAIN sale_index)
    /\ \A t \in TokenArgs, i \in 0..MaxTokens :
           (Contains(sale_index, t) /\ sale_index[t] = i)
               <=> (Contains(orders, i) /\ orders[i].token_id = t)

\* a removal that relocated the last order, leaving at least two orders
C3_Witness ==
    /\ last.op \in {"cancel_order", "buy"}
    /\ last.result = "Ok"
    /\ OrderCount >= 2
    /\ last.order_id < OrderCount

\* C4: owner_count[a] (0 when absent) is the number of tokens whose ownership
\* record names a, and the counts of all accounts add up to next_token_id.
C4_CountMatchesOwnership ==
    /\ \A a \in Accounts : Count(a) = Cardinality(OwnedBy(a))
    /\ SumCounts(NumAccounts) = UnwrapOr(next_token_id, 0)

\* a token changed hands and both accounts still own something
C4_Witness ==
    /\ BoughtByOther
    /\ Count(last.who) >= 2
    /\ Count(last.seller) >= 1

\* C5: a Buy that does not succeed changes nothing; a Buy of a listed token by
\* an account whose free balance is below the order price fails with
\* NotEnoughBalance, and a failed balance transfer fails the call; balances,
\* the order book, the sale index and all ownership data stay as they were.
C5_FailedBuyChangesNothing ==
    [][ last'.op = "buy" =>
          /\ last'.result # "Ok" => UNCHANGED store
          /\ ( /\ Contains(sale_index, last'.token)
               /\ Contains(orders, sale_index[last'.token])
               /\ balances[last'.who] < orders[sale_index[last'.token]].sell_price )
             => last'.result = "NotEnoughBalance"
          /\ last'.result \in {"NotEnoughBalance", "TransferFailed"}
             => /\ Contains(sale_index', last'.token)
                /\ sale_index'[last'.token] = last'.order_id
                /\ orders'[last'.order_id] = Order(last'.token, last'.price)
                /\ token_owner'[last'.token][1] = last'.seller
      ]_vars

\* a buyer who could not pay: the order is still active, the seller still owns
C5_Witness ==
    /\ last.op = "buy"
    /\ last.result = "NotEnoughBalance"
    /\ last.who # last.seller
    /\ balances[last.who] < last.price
    /\ Contains(sale_index, last.token)
    /\ token_owner[last.token][1] = last.seller

\* C6: a successful Buy(b, t) of a token listed at price p and owned by
\* s # b moves p from b to s, records token_owner[t] = (b, k) with k the
\* buyer's count before the call and owner_tokens[(b, k)] = t, adds 1 to
\* owner_count[b], takes 1 from owner_count[s], clears sale_index[t] and
\* takes 1 from order_count.
C6_SuccessfulBuy ==
    [][ (last'.op = "buy" /\ last'.result = "Ok" /\ last'.who # last'.seller) =>
          LET b == last'.who
              t == last'.token
              s == token_owner[t][1]
              p == orders[sale_index[t]].sell_price
              k == Count(b)
          IN  /\ last'.seller = s
              /\ last'.price = p
              /\ balances[b] >= p
              /\ balances'[b] = balances[b] - p
              /\ balances'[s] = balances[s] + p
              /\ token_owner'[t] = <<b, k>>
              /\ Contains(owner_tokens', <<b, k>>)
              /\ owner_tokens'[<<b, k>>] = t
              /\ owner_count'[b] = k + 1
              /\ owner_count'[s] = Count(s) - 1
              /\ ~Contains(sale_index', t)
              /\ order_count' = Some(OrderCount - 1)
      ]_vars

\* a token bought by another account at a positive price
C6_Witness ==
    /\ BoughtByOther
    /\ last.price >= 1
    /\ token_owner[last.token][1] = last.who
    /\ ~Contains(sale_index, last.token)

\* C7: Sell(caller, t, price) is rejected without any change with
\* InvalidTokenID if t has no ownership record, else NotTokenOwner if the
\* caller is not the owner, else TokenAlreadyOnSale if t has a sale_index
\* entry; right after a Buy of t by another account, the former owner's Sell
\* or CancelOrder of t fails with NotTokenOwner and the new owner's Sell
\* succeeds.
C7_SellRejections ==
    [][ /\ last'.op = "sell" =>
            /\ last'.result # "Ok" => UNCHANGED store
            /\ last'.result =
                 ( IF last'.token \notin DOMAIN token_owner
                       THEN "InvalidTokenID"
                   ELSE IF token_owner[last'.token][1] # last'.who
                       THEN "NotTokenOwner"
                   ELSE IF last'.token \in DOMAIN sale_index
                       THEN "TokenAlreadyOnSale"
                   ELSE "Ok" )
        /\ ( /\ BoughtByOther
             /\ last'.op \in {"sell", "cancel_order"}
             /\ last'.token = last.token ) =>
            /\ last'.who = last.seller =>
                   last'.result = "NotTokenOwner" /\ UNCHANGED store
            /\ (last'.who = last.who /\ last'.op = "sell") =>
                   last'.result = "Ok"
      ]_vars

\* the only token was sold and its former owner (count back to 0) tries to
\* sell it again
C7_Witness ==
    /\ last.op = "sell"
    /\ last.result = "NotTokenOwner"
    /\ next_token_id = Some(1)
    /\ Contains(owner_count, last.who)
    /\ owner_count[last.who] = 0
    /\ token_owner[last.token][1] # last.who

\* C8: a successful Sell(owner, t, price) with order_count = n yields
\* order_count = n+1, orders[n] = (t, price), sale_index[t] = n and leaves
\* every other order and every other sale_index entry unchanged.
C8_SuccessfulSell ==
    [][ (last'.op = "sell" /\ last'.result = "Ok") =>
          LET n == OrderCount
              t == last'.token
          IN  /\ order_count' = Some(n + 1)
              /\ DOMAIN orders' = DOMAIN orders \cup {n}
              /\ orders'[n] = Order(t, last'.price)
              /\ \A i \in DOMAIN orders \ {n} : orders'[i] = orders[i]
              /\ DOMAIN sale_index' = DOMAIN sale_index \cup {t}
              /\ sale_index'[t] = n
              /\ \A u \in DOMAIN sale_index \ {t} : sale_index'[u] = sale_index[u]
      ]_vars

\* a listing appended behind two existing orders
C8_Witness ==
    /\ last.op = "sell"
    /\ last.result = "Ok"
    /\ last.order_id = 2
    /\ order_count = Some(3)

\* C9: CancelOrder by the owner of a token with no sale_index entry fails
\* with TokenNotOnSale and changes nothing; in particular a CancelOrder
\* repeated right after a successful one fails so and leaves the state of the
\* first.
C9_CancelIdempotent ==
    [][ /\ ( /\ last'.op = "cancel_order"
             /\ Contains(token_owner, last'.token)
             /\ token_owner[last'.token][1] = last'.who
             /\ ~Contains(sale_index, last'.token) ) =>
            last'.result = "TokenNotOnSale" /\ UNCHANGED store
        /\ ( /\ last.op = "cancel_order"
             /\ last.result = "Ok"
             /\ last'.op = "cancel_order"
             /\ last'.who = last.who
             /\ last'.token = last.token ) =>
            last'.result = "TokenNotOnSale" /\ UNCHANGED store
      ]_vars

\* the owner cancels a token that is not listed, after the book was emptied
C9_Witness ==
    /\ last.op = "cancel_order"
    /\ last.result = "TokenNotOnSale"
    /\ token_owner[last.token][1] = last.who
    /\ order_count = Some(0)

\* C10: removing the order at position i from a book of size n (CancelOrder
\* or Buy): if i # n-1 the order of position n-1 is now at i, the sale index
\* of its token is i, slot n-1 is empty, order_count = n-1, the removed token
\* has no sale_index entry and all other orders are unchanged; if i = n-1
\* only the last slot and the removed token's sale_index entry are cleared.
C10_SwapDelete ==
    [][ (last'.op \in {"cancel_order", "buy"} /\ last'.result = "Ok") =>
          LET t == last'.token
              i == sale_index[t]
              n == OrderCount
              u == orders[n - 1].token_id
          IN  /\ last'.order_id = i
              /\ orders[i].token_id = t
              /\ order_count' = Some(n - 1)
              /\ DOMAIN orders' = DOMAIN orders \ {n - 1}
              /\ DOMAIN sale_index' = DOMAIN sale_index \ {t}
              /\ \A j \in DOMAIN orders' \ {i} : orders'[j] = orders[j]
              /\ \A v \in DOMAIN sale_index' \ {u} : sale_index'[v] = sale_index[v]
              /\ i # n - 1 => /\ orders'[i] = orders[n - 1]
                              /\ sale_index'[u] = i
      ]_vars

\* an order removed from the front of a book of three or more
C10_Witness ==
    /\ last.op \in {"cancel_order", "buy"}
    /\ last.result = "Ok"
    /\ last.order_id = 0
    /\ OrderCount >= 2

\* C11: a successful Mint by c with next_token_id = n and owner_count[c] = k
\* yields token_owner[n] = (c, k), owner_tokens[(c, k)] = n,
\* owner_count[c] = k+1 and next_token_id = n+1; the first Mint ever issues
\* token 0 at position 0.
C11_MintRoundTrip ==
    [][ (last'.op = "mint" /\ last'.result = "Ok") =>
          LET c == last'.who
              n == UnwrapOr(next_token_id, 0)
              k == Count(c)
          IN  /\ last'.token = n
              /\ next_token_id = None => (n = 0 /\ k = 0)
              /\ Contains(token_owner', n)
              /\ token_owner'[n] = <<c, k>>
              /\ Contains(owner_tokens', <<c, k>>)
              /\ owner_tokens'[<<c, k>>] = n
              /\ owner_count'[c] = k + 1
              /\ next_token_id' = Some(n + 1)
      ]_vars

\* a mint by an account that already owned a token
C11_Witness ==
    /\ last.op = "mint"
    /\ last.result = "Ok"
    /\ last.token >= 1
    /\ token_owner[last.token] = <<last.who, 1>>
    /\ owner_count[last.who] = 2

\* C12: next_token_id never decreases, a successful Mint issues an identifier
\* that had no ownership record, token_owner[t] is present exactly for
\* t < next_token_id, and a present token_owner[t] stays present.
C12_TokensMonotonic ==
    [][ /\ UnwrapOr(next_token_id', 0) >= UnwrapOr(next_token_id, 0)
        /\ (last'.op = "mint" /\ last'.result = "Ok") =>
               ~Contains(token_owner, last'.token)
        /\ DOMAIN token_owner' = 0..(UnwrapOr(next_token_id', 0) - 1)
        /\ DOMAIN token_owner \subseteq DOMAIN token_owner'
      ]_vars

\* a second token exists after the first one changed hands
C12_Witness ==
    /\ next_token_id = Some(2)
    /\ last.op = "mint"
    /\ last.result = "Ok"
    /\ last.token = 1
    /\ token_owner[0][1] # last.who
    /\ Count(last.who) = 1
    /\ Contains(owner_count, token_owner[0][1])

\* C13: when a successful Buy removes token t from seller s and t's position
\* p is not the seller's last position owner_count[s]-1, the token u that was
\* at the last position is written to position p and its ownership record
\* becomes token_owner[u] = (s, p).
C13_RelocationUpdatesRecord ==
    [][ ( /\ last'.op = "buy"
          /\ last'.result = "Ok"
          /\ token_owner[last'.token][2] # Count(last'.seller) - 1 ) =>
          LET s == last'.seller
              p == token_owner[last'.token][2]
              u == owner_tokens[<<s, Count(s) - 1>>]
          IN  /\ last'.who # s => /\ Contains(owner_tokens', <<s, p>>)
                                  /\ owner_tokens'[<<s, p>>] = u
              /\ token_owner'[u] = <<s, p>>
      ]_vars

\* C14: for every account a and position p < owner_count[a] the token
\* t = owner_tokens[(a, p)] satisfies token_owner[t] = (a, p); after a Buy by
\* another account the sold token is no longer in the seller's array.
C14_ArrayListsOwnedTokens ==
    /\ \A a \in Accounts : \A p \in 0..(Count(a) - 1) :
           /\ Contains(owner_tokens, <<a, p>>)
           /\ token_owner[owner_tokens[<<a, p>>]] = <<a, p>>
    /\ BoughtByOther =>
           \A p \in 0..(Count(last.seller) - 1) :
               GetOr(owner_tokens, <<last.seller, p>>, -1) # last.token

\* C15: a sell order is immutable while active: an order is created by a
\* successful Sell of its token at the given price, every later step keeps
\* orders[sale_index[t]] = (t, p) (only the position may change), and the
\* order disappears only by a successful CancelOrder or Buy of t.
C15_OrderImmutable ==
    [][ /\ \A t \in DOMAIN sale_index :
             \/ /\ Contains(sale_index', t)
                /\ Contains(orders', sale_index'[t])
                /\ orders'[sale_index'[t]] = orders[sale_index[t]]
                /\ orders[sale_index[t]].token_id = t
             \/ /\ ~Contains(sale_index', t)
                /\ last'.op \in {"cancel_order", "buy"}
                /\ last'.result = "Ok"
                /\ last'.token = t
        /\ \A t \in DOMAIN sale_index' \ DOMAIN sale_index :
             /\ last'.op = "sell"
             /\ last'.result = "Ok"
             /\ last'.token = t
             /\ orders'[sale_index'[t]] = Order(t, last'.price)
      ]_vars

\* another order was removed and an order of a different price moved into
\* its slot
C15_Witness ==
    /\ last.op \in {"cancel_order", "buy"}
    /\ last.result = "Ok"
    /\ last.order_id < OrderCount
    /\ OrderCount >= 2
    /\ \E i \in DOMAIN orders : orders[i].sell_price # orders[last.order_id].sell_price

\* C16: no counter wraps: a Mint, Sell or Buy that would push next_token_id,
\* owner_count[a] or order_count beyond its maximum fails with StorageOverflow
\* and changes nothing, and every successful call stores the exact sum, never
\* a value reduced modulo the range.
C16_NoCounterWraps ==
    [][ /\ last'.result = "StorageOverflow" => UNCHANGED store
        /\ ( /\ last'.op = "mint"
             /\ \/ UnwrapOr(next_token_id, 0) = U64_MAX
                \/ Count(last'.who) = U64_MAX ) =>
               last'.result = "StorageOverflow"
        /\ (last'.op = "mint" /\ last'.result = "Ok") =>
               /\ next_token_id' = Some(UnwrapOr(next_token_id, 0) + 1)
               /\ owner_count'[last'.who] = Count(last'.who) + 1
        /\ (last'.op = "sell" /\ last'.result = "Ok") =>
               order_count' = Some(OrderCount + 1)
        /\ (last'.op = "buy" /\ last'.result = "Ok") =>
               owner_count'[last'.who] =
                   IF last'.who = last'.seller THEN Count(last'.who)
                   ELSE Count(last'.who) + 1
        /\ UnwrapOr(next_token_id', 0) \in 0..U64_MAX
        /\ UnwrapOr(order_count', 0) \in 0..U128_MAX
        /\ \A a \in Accounts : GetOr(owner_count', a, 0) \in 0..U64_MAX
        /\ UnwrapOr(next_token_id', 0) >= UnwrapOr(next_token_id, 0)
      ]_vars

\* a mint rejected at the top of the counter range, by the account that
\* holds every token
C16_Witness ==
    /\ last.op = "mint"
    /\ last.result = "StorageOverflow"
    /\ next_token_id = Some(U64_MAX)
    /\ Count(last.who) = U64_MAX

C18_NoRegistryInconsistency ==
    /\ \A t \in DOMAIN sale_index :
          /\ Contains(token_owner, t)
          /\ order_count # None
          /\ OrderCount >= 1
          /\ Contains(orders, sale_index[t])
          /\ Contains(orders, OrderCount - 1)
          /\ Contains(owner_count, token_owner[t][1])
          /\ owner_count[token_owner[t][1]] >= 1
          /\ Contains(owner_tokens,
                      <<token_owner[t][1], owner_count[token_owner[t][1]] - 1>>)
    /\ last.result \notin {"SellOrderNotFound", "NoSellOrdersFound", "Panic"}

\* a Buy went through and a token is listed whose stored position is stale
C18_Witness ==
    /\ last.op = "buy"
    /\ last.result = "Ok"
    /\ \E t \in DOMAIN sale_index :
           GetOr(owner_tokens, token_owner[t], -1) # t

\* C19: ownership cannot change while a token is listed, so the account paid
\* by Buy is the account that listed it: an order for t appears only by a
\* successful Sell called by t's owner; a minted token stays minted and its
\* owner changes only by a successful Buy of that token, which removes the
\* token's order in the same call; and a successful Buy pays the owner the
\* token had before the call and makes the caller the owner.
C19_OwnerFixedWhileListed ==
    [][ /\ DOMAIN token_owner \subseteq DOMAIN token_owner'
        /\ \A t \in DOMAIN token_owner :
              token_owner'[t][1] # token_owner[t][1] =>
                  /\ last'.op = "buy"
                  /\ last'.result = "Ok"
                  /\ last'.token = t
                  /\ Contains(sale_index, t)
                  /\ ~Contains(sale_index', t)
        /\ \A t \in DOMAIN sale_index' \ DOMAIN sale_index :
              /\ last'.op = "sell"
              /\ last'.result = "Ok"
              /\ last'.token = t
              /\ Contains(token_owner, t)
              /\ last'.who = token_owner[t][1]
              /\ token_owner'[t] = token_owner[t]
        /\ (last'.op = "buy" /\ last'.result = "Ok") =>
              /\ Contains(sale_index, last'.token)
              /\ ~Contains(sale_index', last'.token)
              /\ last'.seller = token_owner[last'.token][1]
              /\ token_owner'[last'.token][1] = last'.who
              /\ balances' = Transfer(balances, last'.who,
                                      token_owner[last'.token][1], last'.price)
      ]_vars

\* another account bought a listed token: the owner changed, the order is
\* gone and the previous owner holds the price
C19_Witness ==
    /\ BoughtByOther
    /\ last.price >= 1
    /\ token_owner[last.token][1] = last.who
    /\ ~Contains(sale_index, last.token)
    /\ balances[last.seller] = InitialBalance + last.price

RECURSIVE SumBalances(_, _)
SumBalances(bal, n) == IF n = 0 THEN 0 ELSE bal[n] + SumBalances(bal, n - 1)

\* C20: balances are conserved: every step keeps the sum of all balances;
\* only a successful Buy changes a balance; it moves exactly the listed price
\* from the buyer to the seller; and a Buy by the seller leaves every balance
\* unchanged while it removes the order and keeps the caller as owner.
C20_BalancesConserved ==
    [][ /\ SumBalances(balances', NumAccounts) = SumBalances(balances, NumAccounts)
        /\ balances' # balances => (last'.op = "buy" /\ last'.result = "Ok")
        /\ (last'.op = "buy" /\ last'.result = "Ok") =>
              /\ last'.price = orders[sale_index[last'.token]].sell_price
              /\ IF last'.who = last'.seller
                 THEN /\ balances' = balances
                      /\ ~Contains(sale_index', last'.token)
                      /\ token_owner'[last'.token][1] = last'.who
                 ELSE \A a \in Accounts :
                        balances'[a] =
                          IF a = last'.who THEN balances[a] - last'.price
                          ELSE IF a = last'.seller THEN balances[a] + last'.price
                          ELSE balances[a]
      ]_vars

\* an owner bought their own listing at a positive price: the order is gone,
\* the caller still owns the token and no balance moved
C20_Witness ==
    /\ last.op = "buy"
    /\ last.result = "Ok"
    /\ last.who = last.seller
    /\ last.price >= 1
    /\ token_owner[last.token][1] = last.who
    /\ ~Contains(sale_index, last.token)
    /\ \A a \in Accounts : balances[a] = InitialBalance
====
